---- MODULE Spec2Model ----
(***************************************************************************)
(* A model of bspatch.js: the BSDIFF40 patch engine (generator bspatch),   *)
(* driven through the pull adapter asyncIteratorToStream, and the helpers  *)
(* it decodes its integers with.                                           *)
(*                                                                         *)
(* The specifications share the variables:                                 *)
(*   Spec      the engine applied to an old source and a patch stream;     *)
(*   SpecLive  the same, with every step that can be taken being taken;    *)
(*   SpecInt64 getInt64 applied to 8-byte fields;                          *)
(*   SpecPull  asyncIteratorToStream over any iterator;                    *)
(*   SpecBYOB  emulateBYOB over a reader that hands out chunks;            *)
(*   SpecBits  bitReaderFromStreamReader over a byte sequence.             *)
(***************************************************************************)
EXTENDS Integers, Sequences, FiniteSets, TLC

VARIABLES
  \* ---- Spec: configuration and inputs ----
  bufferSize,   \* the chunk size the engine runs with (BUFFER_SIZE in the code)
  patchHeader,  \* the first 32 bytes the patch stream holds
  recs,         \* the control records read so far: the 24 bytes of each and
                \* what readControlHeader made of them
  \* ---- Spec: the generator bspatch ----
  pc,           \* where the generator stands
  data,         \* readHeader / readControlHeader: the Uint8Array being filled
  hdr,          \* the decoded header {magic, controlSize, diffSize, newSize}
  rec,          \* the decoded control record {addSize, copySize, seekSize}
  newPos, oldPos, i,
  temp1, temp2, \* the two scratch buffers
  rd1, rd2,     \* the reads in flight: [on, off, end, eof, late]
  patchPos, oldRead, diffRead, extraRead,  \* bytes each reader has delivered
  \* ---- Spec: the pull adapter and the output stream ----
  prevSlice, cursor, pulling, st, err,
  \* ---- Spec: history ----
  emitted,      \* the bytes the generator has yielded
  out,          \* the bytes delivered to the consumer
  fault,        \* the error the engine threw, if any
  eofAt,        \* Len(emitted) when a required read was answered with done,
                \* -1 before
  faultAt,      \* Len(out) when the engine threw, -1 before
  recStart,     \* newPos when the current control record was decoded
  failedAt,     \* the generator position that threw
  \* ---- SpecInt64 ----
  bytes,        \* an 8-byte field
  value,        \* <<getInt64(bytes, 0)>>, once decoded
  \* ---- SpecBYOB ----
  eb,           \* emulateBYOB: its upstream, buffer, offset and last read
  \* ---- SpecBits ----
  br            \* bitReaderFromStreamReader: its upstream, cursor and call

engineVars == <<bufferSize, patchHeader, recs, pc, data, hdr, rec, recStart, newPos,
                oldPos, i, temp1, temp2, rd1, rd2, patchPos, oldRead, diffRead,
                extraRead, prevSlice, cursor, pulling, st, err, emitted,
                out, fault, eofAt, failedAt, faultAt>>
int64Vars == <<bytes, value>>
readerVars == <<eb, br>>
vars == <<engineVars, int64Vars, readerVars>>

Null == "null"
NoSlice == <<>>   \* prevSlice = null; line 17 treats an empty slice alike

\* ------------------------------------------------------------------------
\* Bounds of the model
\* ------------------------------------------------------------------------
MaxNew == 3       \* the largest newSize a sampled header declares
MaxRecords == 2   \* control records the control stream holds at most
MaxView == 2      \* the largest destination buffer the consumer pulls with
MaxChunks == 2    \* chunks the reader under emulateBYOB delivers at most
MaxBytes == 5     \* bytes the reader under the bit reader delivers at most
MaxCopy == 2      \* the largest copySize a sampled control record carries

\* ------------------------------------------------------------------------
\* Program constants
\* ------------------------------------------------------------------------
BUFFER_SIZE == 4096
MAGIC == <<66, 83, 68, 73, 70, 70, 52, 48>>   \* "BSDIFF40"

Min(a, b) == IF a < b THEN a ELSE b

Zeros(n) == [k \in 1..n |-> 0]

\* ------------------------------------------------------------------------
\* JavaScript's 32-bit bitwise operators, on bytes
\* ------------------------------------------------------------------------
RECURSIVE BitAnd(_, _)
BitAnd(a, b) ==
  IF a = 0 \/ b = 0 THEN 0
  ELSE (a % 2) * (b % 2) + 2 * BitAnd(a \div 2, b \div 2)

RECURSIVE BitOr(_, _)
BitOr(a, b) ==
  IF a = 0 THEN b
  ELSE IF b = 0 THEN a
  ELSE (IF a % 2 = 1 \/ b % 2 = 1 THEN 1 ELSE 0) + 2 * BitOr(a \div 2, b \div 2)

\* byte << shift as a 32-bit word, little-endian bytes 0..3. JavaScript takes
\* the shift count modulo 32; every count used is a multiple of 8.
ShiftLeft(byte, shift) ==
  [k \in 0..3 |-> IF k = (shift % 32) \div 8 THEN byte ELSE 0]

OrWord(w1, w2) == [k \in 0..3 |-> BitOr(w1[k], w2[k])]

\* The signed value of a 32-bit word (ToInt32).
ToInt32(w) ==
  (IF w[3] >= 128 THEN w[3] - 256 ELSE w[3]) * 16777216
    + w[2] * 65536 + w[1] * 256 + w[0]

\* `signed` of getInt64: bytes[offset + 7] & 0x80 != 0. The comparison binds
\* tighter than &, so the byte is masked with (0x80 != 0), that is with 1.
SignedFlag(b7) == BitAnd(b7, IF 128 # 0 THEN 1 ELSE 0)

getInt64(bs, offset) ==
  LET result ==
        ToInt32(
          OrWord(ShiftLeft(BitAnd(bs[offset + 1], 255), 0 * 8),
          OrWord(ShiftLeft(BitAnd(bs[offset + 2], 255), 1 * 8),
          OrWord(ShiftLeft(BitAnd(bs[offset + 3], 255), 2 * 8),
          OrWord(ShiftLeft(BitAnd(bs[offset + 4], 255), 3 * 8),
          OrWord(ShiftLeft(BitAnd(bs[offset + 5], 255), 4 * 8),
          OrWord(ShiftLeft(BitAnd(bs[offset + 6], 255), 5 * 8),
          OrWord(ShiftLeft(BitAnd(bs[offset + 7], 255), 6 * 8),
                 ShiftLeft(BitAnd(bs[offset + 8], 127), 7 * 8)))))))))
      signed == SignedFlag(bs[offset + 8])
  IN IF signed # 0 THEN -result ELSE result

\* String.fromCharCode of each byte: the string as its sequence of char codes.
getAsciiString(bs, offset, end) == [k \in 1..(end - offset) |-> bs[offset + k]]

\* add: left[i] += right[i] on a Uint8Array, for offset <= i < end.
add(left, right, offset, end) ==
  [k \in DOMAIN left |->
     IF offset < k /\ k <= end THEN (left[k] + right[k]) % 256 ELSE left[k]]

\* ------------------------------------------------------------------------
\* Inputs: sampled headers and control records, stream contents
\* ------------------------------------------------------------------------
\* An 8-byte field on the wire: little-endian magnitude, 0x80 of the eighth
\* byte the sign flag.
Int64(n) == <<n, 0, 0, 0, 0, 0, 0, 0>>        \* +n, n < 256
NegWire(n) == <<n, 0, 0, 0, 0, 0, 0, 128>>    \* -n: sign flag set
NegBoth == <<1, 0, 0, 0, 0, 0, 0, 129>>       \* sign flag set, and bit 0 too

BadMagic == <<66, 83, 68, 73, 70, 70, 52, 49>>   \* "BSDIFF41"

NegSamples == {NegWire(1), NegBoth}

\* Headers: a valid one for an empty new file and one for the largest, and
\* one fault at a time in a header for a new file of one byte.
Headers ==
  {MAGIC \o Int64(2) \o Int64(2) \o Int64(n) : n \in {0, MaxNew}}
    \cup {BadMagic \o Int64(1) \o Int64(1) \o Int64(1)}
    \cup {MAGIC \o f \o Int64(1) \o Int64(1) : f \in NegSamples}
    \cup {MAGIC \o Int64(1) \o f \o Int64(1) : f \in NegSamples}
    \cup {MAGIC \o Int64(1) \o Int64(1) \o f : f \in NegSamples}

AddSamples == {Int64(n) : n \in 0..MaxNew} \cup NegSamples
CopySamples == {Int64(n) : n \in 0..MaxCopy} \cup {NegBoth}
\* Seeks: none, one byte backwards (which getInt64 reads as one byte
\* forwards), and a field getInt64 reads as negative.
SeekSamples == {Int64(0), NegWire(1), NegBoth}
RecordSamples ==
  {a \o c \o s : a \in AddSamples, c \in CopySamples, s \in SeekSamples}

\* The chunk sizes the engine is run with: the code's, and two small ones
\* that make the chunk loops iterate on the sizes above.
ChunkSizes == {1, 2, BUFFER_SIZE}

\* The byte each stream holds at position p (0-based).
OldByte(p) == (200 + 57 * p) % 256
DiffByte(p) == (100 + 155 * p) % 256
ExtraByte(p) == (42 + p) % 256

\* The n bytes each stream holds from position pos.
OldBytes(pos, n) == [k \in 1..n |-> OldByte(pos + k - 1)]
DiffBytes(pos, n) == [k \in 1..n |-> DiffByte(pos + k - 1)]
ExtraBytes(pos, n) == [k \in 1..n |-> ExtraByte(pos + k - 1)]

\* The slots of temp1 and temp2 the model keeps: no read is longer.
TempSlots == MaxNew

\* ------------------------------------------------------------------------
\* read (lines 188-194) and the readers under it
\* ------------------------------------------------------------------------
Idle == [on |-> "none", off |-> 0, end |-> 0, eof |-> FALSE, late |-> FALSE]

\* line 188: read(streamReader, buffer, 0, n) is called on a reader. eof:
\* the reader has answered done; late: a streamReader.read of this call was
\* issued while no pull of the output stream was in flight.
readOf(stream, n) ==
  [on |-> stream, off |-> 0, end |-> n, eof |-> FALSE, late |-> FALSE]

\* read returning after its first delivery, without line 193.
readDoneEarly(r) == r.off > 0 \/ r.off >= r.end

\* line 189: if (offset >= end) { return; }
readDone(r) == r.off >= r.end

\* line 191 is awaited: the call has neither returned nor thrown.
inFlight(r) == r.on # "none" /\ ~readDone(r) /\ ~r.eof

\* line 192 for the call itself: it is over, whoever awaits it.
readEnded(r) == [r EXCEPT !.eof = TRUE]

\* line 193 issues the next streamReader.read unless line 189 returns; it
\* does so whether or not the pull that awaited the call is still there.
reissue(r, inPull) ==
  IF readDone(r) \/ inPull THEN r ELSE [r EXCEPT !.late = TRUE]

\* line 253 with both reads on the old source.
addReadsSameReader(n) == <<readOf("old", n), readOf("old", n)>>

\* line 253: Promise.all([read(oldReader, ...), read(diffReader, ...)])
addReads(n) == <<readOf("old", n), readOf("diff", n)>>

\* read without its line 192: done is taken for an empty delivery.
readIgnoresDone(done) == Null

\* line 192: if (done) { throw new Error('Unexpected EOF'); }
readThrow(done) == IF done THEN "Unexpected EOF" ELSE Null

\* line 193: read(streamReader, buffer, offset + newView.byteLength, end)
readNext(r, n) == [r EXCEPT !.off = @ + n]

\* The bytes one streamReader.read(destination) answers with when its
\* stream has not ended: as many as fit (emulateBYOB.read line 170, pull
\* line 49), or a short read of half as many.
Deliveries(r) ==
  LET m == r.end - r.off
  IN {m} \cup {n \in {m \div 2} : n >= 1}

\* The same for the reads of a header or a control record: all that fits, or
\* a short first read of one 8-byte field.
FieldDeliveries(r) ==
  LET m == r.end - r.off
  IN {m} \cup {n \in {8} : r.off = 0 /\ n < m}

\* The n bytes the control stream delivers at offset off of a record: those
\* of a sampled record.
RecordBytes(off, n) == {SubSeq(r, off + 1, off + n) : r \in RecordSamples}

\* destination.set(bs) at offset off of buf.
Store(buf, off, bs) ==
  [k \in DOMAIN buf |->
     IF off < k /\ k <= off + Len(bs) THEN bs[k - off] ELSE buf[k]]

\* readAmount without the Math.min: all that is left of the phase.
readAmountRest(B, size, idx) == size - idx

\* lines 252, 265, 276: Math.min(BUFFER_SIZE, size - i)
readAmount(B, size, idx) == Min(B, size - idx)

\* ------------------------------------------------------------------------
\* readHeader, readControlHeader and the engine's checks
\* ------------------------------------------------------------------------
readHeader(d) ==
  [magic |-> getAsciiString(d, 0, 8),
   controlSize |-> getInt64(d, 1 * 8),
   diffSize |-> getInt64(d, 2 * 8),
   newSize |-> getInt64(d, 3 * 8)]

readControlHeader(d) ==
  [addSize |-> getInt64(d, 0 * 8),
   copySize |-> getInt64(d, 1 * 8),
   seekSize |-> getInt64(d, 2 * 8)]

\* line 225
headerCorrupt(h) ==
  h.magic # MAGIC \/ h.controlSize < 0 \/ h.diffSize < 0 \/ h.newSize < 0

\* line 247 without its bound on newPos + addSize.
addCorruptSignOnly(np, addSize, newSize) == addSize < 0

\* line 247
addCorrupt(np, addSize, newSize) == np + addSize > newSize \/ addSize < 0

\* line 260
copyCorrupt(np, copySize, newSize) == np + copySize > newSize \/ copySize < 0

\* line 271
seekCorrupt(seekSize) == seekSize < 0

\* line 244 entered once more when the new file is complete.
loopContinuesAtEnd(np, newSize) == np <= newSize

\* line 244: while (newPos < newSize)
loopContinues(np, newSize) == np < newSize

\* lines 251, 264, 275 without the increment.
nextChunkStays(idx, B) == idx

\* lines 251, 264, 275: i += BUFFER_SIZE
nextChunk(idx, B) == idx + B

\* ------------------------------------------------------------------------
\* asyncIteratorToStream.pull (lines 16-59)
\* ------------------------------------------------------------------------
\* line 17: the held slice is used up (or there is none)
sliceUsedUp(slice, cur) == slice = NoSlice \/ cur >= Len(slice)

\* lines 46-58 with line 54 handing over the whole slice.
deliverWhole(slice, cur, v) ==
  IF v > 0
  THEN LET writeAmount == Min(Len(slice) - cur, v)
       IN [given |-> SubSeq(slice, cur + 1, cur + writeAmount),
           prevSlice |-> slice,
           cursor |-> cur + writeAmount]
  ELSE [given |-> slice,
        prevSlice |-> NoSlice,
        cursor |-> 0]

\* lines 46-58: hand the held slice to the consumer; v is the length of the
\* consumer's destination buffer, 0 when it pulls without one.
deliver(slice, cur, v) ==
  IF v > 0
  THEN LET writeAmount == Min(Len(slice) - cur, v)
       IN [given |-> SubSeq(slice, cur + 1, cur + writeAmount),
           prevSlice |-> slice,
           cursor |-> cur + writeAmount]
  ELSE [given |-> SubSeq(slice, cur + 1, Len(slice)),
        prevSlice |-> NoSlice,
        cursor |-> 0]

\* pull catching what the generator throws and closing the stream.
pullSwallows(e) == [st |-> "closed", err |-> Null]

\* lines 21-24: iterator.next / iterator.throw are called outside any try, so
\* what the generator throws rejects pull and errors the stream.
pullThrows(e) == [st |-> "errored", err |-> e]

\* lines 26-30: done closes the stream.
pullDone == [st |-> "closed", err |-> Null]

\* ------------------------------------------------------------------------
\* Spec: the engine
\* ------------------------------------------------------------------------
fixedVars == <<bufferSize, patchHeader, bytes, value, eb, br>>
failVars == <<pc, failedAt, fault, faultAt, st, err, pulling>>
sliceVars == <<emitted, out, prevSlice, cursor>>
posVars == <<patchPos, oldRead, diffRead, extraRead>>
genVars == <<hdr, rec, recStart, newPos, oldPos, i>>
bufVars == <<data, temp1, temp2>>

\* Line 223 has not run: there is no header yet. Line 245 likewise.
NoHeader == [magic |-> <<>>, controlSize |-> 0, diffSize |-> 0, newSize |-> 0]
NoRecord == [addSize |-> 0, copySize |-> 0, seekSize |-> 0]

\* Nothing has run yet: bspatchStream (lines 283-285) has built the stream.
EngineStart ==
  /\ recs = <<>>
  /\ pc = "start"
  /\ data = <<>>
  /\ hdr = NoHeader /\ rec = NoRecord
  /\ newPos = 0 /\ oldPos = 0 /\ i = 0
  /\ temp1 = Zeros(TempSlots) /\ temp2 = Zeros(TempSlots)
  /\ rd1 = Idle /\ rd2 = Idle
  /\ patchPos = 0 /\ oldRead = 0 /\ diffRead = 0 /\ extraRead = 0
  /\ prevSlice = NoSlice /\ cursor = 0 /\ pulling = FALSE
  /\ st = "readable" /\ err = Null
  /\ emitted = <<>> /\ out = <<>>
  /\ fault = Null /\ eofAt = -1 /\ failedAt = Null /\ faultAt = -1
  /\ recStart = 0

Init ==
  /\ bufferSize \in ChunkSizes
  /\ patchHeader \in Headers
  /\ EngineStart
  /\ bytes = <<>> /\ value = <<>>
  /\ eb = Null /\ br = Null

\* The generator throws e, or a rejected promise is thrown back into it
\* (lines 23, 40-41) and it does not catch: pull rejects.
Throw(e) ==
  /\ pc' = "failed" /\ failedAt' = pc /\ fault' = e /\ faultAt' = Len(out)
  /\ st' = pullThrows(e).st /\ err' = pullThrows(e).err
  /\ pulling' = FALSE

\* streamReader.read answered done (line 191).
ReadEnds ==
  /\ eofAt' = IF eofAt < 0 THEN Len(emitted) ELSE eofAt
  /\ IF readThrow(TRUE) # Null
     THEN Throw(readThrow(TRUE))
     ELSE UNCHANGED failVars

\* The generator returns: next() gives done (lines 26-30).
Return ==
  /\ pc' = "done"
  /\ st' = pullDone.st /\ err' = pullDone.err
  /\ pulling' = FALSE

\* The generator yields a chunk (lines 32-36), which pull hands to the
\* consumer (lines 46-58). The length v of the destination buffer the
\* consumer pulled with (0: it pulled without one) is first read here.
Yield(chunk) ==
  \E v \in 0..MaxView :
    LET d == deliver(chunk, 0, v)
    IN /\ emitted' = emitted \o chunk
       /\ out' = out \o d.given
       /\ prevSlice' = d.prevSlice /\ cursor' = d.cursor
       /\ pulling' = FALSE

\* The consumer reads from the output stream, with a destination buffer of
\* v bytes or (v = 0) without one: pull (lines 16-59) up to its first await.
Pull ==
  /\ st = "readable" /\ ~pulling
  /\ IF ~sliceUsedUp(prevSlice, cursor)
     THEN \E v \in 0..MaxView :
            LET d == deliver(prevSlice, cursor, v)
            IN /\ out' = out \o d.given
               /\ prevSlice' = d.prevSlice /\ cursor' = d.cursor
               /\ UNCHANGED <<pulling, st, err>>
     ELSE IF pc \in {"done", "failed"}
     THEN /\ st' = pullDone.st /\ err' = pullDone.err
          /\ prevSlice' = NoSlice
          /\ UNCHANGED <<out, cursor, pulling>>
     ELSE /\ prevSlice' = NoSlice /\ pulling' = TRUE
          /\ UNCHANGED <<out, cursor, st, err>>
  /\ UNCHANGED <<fixedVars, recs, pc, failedAt, fault, faultAt, posVars, genVars,
                 bufVars, rd1, rd2, emitted, eofAt>>

\* lines 220-223: the first next() runs to the yield of readHeader.
Begin ==
  /\ pulling /\ pc = "start"
  /\ rd1' = readOf("patch", 32)
  /\ data' = Zeros(32)
  /\ pc' = "header"
  /\ UNCHANGED <<fixedVars, recs, failedAt, fault, faultAt, st, err, pulling, sliceVars,
                 posVars, genVars, temp1, temp2, rd2, eofAt>>

\* readHeader's read of the patch stream (line 207): one patchReader.read.
HeaderStep ==
  /\ pc = "header" /\ ~readDone(rd1)
  /\ \/ /\ \E n \in FieldDeliveries(rd1) :
               /\ data' = Store(data, rd1.off,
                              SubSeq(patchHeader, rd1.off + 1, rd1.off + n))
               /\ rd1' = readNext(rd1, n)
               /\ patchPos' = patchPos + n
        /\ UNCHANGED <<failVars, eofAt>>
     \/ /\ ReadEnds
        /\ rd1' = readEnded(rd1)
        /\ UNCHANGED <<data, patchPos>>
  /\ UNCHANGED <<fixedVars, recs, sliceVars, oldRead, diffRead, extraRead,
                 genVars, temp1, temp2, rd2>>

\* lines 208-231: the header is decoded and checked, the control pipeline is
\* built and the read of the control segment is issued.
HeaderResume ==
  /\ pc = "header" /\ readDone(rd1)
  /\ hdr' = readHeader(data)
  /\ IF headerCorrupt(hdr')
     THEN Throw("Corrupt patch") /\ UNCHANGED rd1
     ELSE /\ pc' = "control"
          /\ rd1' = readOf("patch", hdr'.controlSize)
          /\ UNCHANGED <<failedAt, fault, faultAt, st, err, pulling>>
  /\ UNCHANGED <<fixedVars, recs, sliceVars, posVars, rec, recStart, newPos, oldPos, i,
                 bufVars, rd2, eofAt>>

\* One patchReader.read of the control or the diff segment (lines 231, 235).
SegmentStep ==
  /\ pc \in {"control", "diff"} /\ ~readDone(rd1)
  /\ \/ /\ \E n \in Deliveries(rd1) :
               /\ rd1' = readNext(rd1, n)
               /\ patchPos' = patchPos + n
        /\ UNCHANGED <<failVars, eofAt>>
     \/ /\ ReadEnds
        /\ rd1' = readEnded(rd1)
        /\ UNCHANGED <<patchPos>>
  /\ UNCHANGED <<fixedVars, recs, sliceVars, oldRead, diffRead, extraRead,
                 genVars, bufVars, rd2>>

\* lines 233-235
ControlResume ==
  /\ pc = "control" /\ readDone(rd1)
  /\ pc' = "diff"
  /\ rd1' = readOf("patch", hdr.diffSize)
  /\ UNCHANGED <<fixedVars, recs, failedAt, fault, faultAt, st, err, pulling, sliceVars,
                 posVars, genVars, bufVars, rd2, eofAt>>

\* lines 237-242
DiffResume ==
  /\ pc = "diff" /\ readDone(rd1)
  /\ newPos' = 0 /\ oldPos' = 0
  /\ rd1' = Idle
  /\ pc' = "loop"
  /\ UNCHANGED <<fixedVars, recs, failedAt, fault, faultAt, st, err, pulling, sliceVars,
                 posVars, hdr, rec, recStart, i, bufVars, rd2, eofAt>>

\* lines 244-245: another record is due; readControlHeader is issued.
LoopNext ==
  /\ pc = "loop" /\ loopContinues(newPos, hdr.newSize)
  /\ rd1' = readOf("control", 24)
  /\ data' = Zeros(24)
  /\ pc' = "record"
  /\ UNCHANGED <<fixedVars, recs, failedAt, fault, faultAt, st, err, pulling, sliceVars,
                 posVars, genVars, temp1, temp2, rd2, eofAt>>

\* line 244 false: the generator returns.
LoopExit ==
  /\ pc = "loop" /\ ~loopContinues(newPos, hdr.newSize)
  /\ Return
  /\ UNCHANGED <<fixedVars, recs, failedAt, fault, faultAt, sliceVars, posVars, genVars,
                 bufVars, rd1, rd2, eofAt>>

\* readControlHeader's read of the control stream (line 198): one
\* controlReader.read. The stream shows its bytes as it delivers them, and
\* ends after MaxRecords records at the latest.
RecordStep ==
  /\ pc = "record" /\ ~readDone(rd1)
  /\ \/ /\ Len(recs) < MaxRecords
          /\ \E n \in FieldDeliveries(rd1) :
             \E bs \in RecordBytes(rd1.off, n) :
               /\ data' = Store(data, rd1.off, bs)
               /\ rd1' = readNext(rd1, n)
        /\ UNCHANGED <<failVars, eofAt>>
     \/ /\ ReadEnds
        /\ rd1' = readEnded(rd1)
        /\ UNCHANGED <<data>>
  /\ UNCHANGED <<fixedVars, recs, sliceVars, posVars, genVars, temp1, temp2, rd2>>

\* lines 199-251: the record is decoded, addSize is checked.
RecordResume ==
  /\ pc = "record" /\ readDone(rd1)
  /\ rec' = readControlHeader(data)
  /\ recs' = Append(recs, [raw |-> data, val |-> rec'])
  /\ recStart' = newPos
  /\ IF addCorrupt(newPos, rec'.addSize, hdr.newSize)
     THEN Throw("Corrupt patch") /\ UNCHANGED i
     ELSE /\ i' = 0 /\ pc' = "addLoop"
          /\ UNCHANGED <<failedAt, fault, faultAt, st, err, pulling>>
  /\ UNCHANGED <<fixedVars, sliceVars, posVars, hdr, newPos, oldPos,
                 bufVars, rd1, rd2, eofAt>>

\* Promise.all (line 253) has rejected with the first read that threw and
\* the generator is over, but nothing stops the other call of read: it goes
\* on through lines 191-193 with nobody awaiting it.
Orphaned == pc = "failed" /\ failedAt = "add"

\* lines 251-253: a chunk of the add phase; both reads are issued.
AddChunk ==
  /\ pc = "addLoop" /\ i < rec.addSize
  /\ LET n == readAmount(bufferSize, rec.addSize, i)
     IN /\ rd1' = addReads(n)[1]
        /\ rd2' = addReads(n)[2]
  /\ pc' = "add"
  /\ UNCHANGED <<fixedVars, recs, failedAt, fault, faultAt, st, err, pulling, sliceVars,
                 posVars, genVars, bufVars, eofAt>>

\* One oldReader.read (lines 253, 277).
OldStep ==
  /\ pc \in {"add", "seek"} \/ Orphaned
  /\ inFlight(rd1)
  /\ \/ /\ \E n \in Deliveries(rd1) :
               /\ temp1' = Store(temp1, rd1.off, OldBytes(oldRead, n))
               /\ rd1' = reissue(readNext(rd1, n), pulling)
               /\ oldRead' = oldRead + n
        /\ UNCHANGED <<failVars, eofAt>>
     \/ /\ IF Orphaned THEN UNCHANGED <<failVars, eofAt>> ELSE ReadEnds
        /\ rd1' = readEnded(rd1)
        /\ UNCHANGED <<temp1, oldRead>>
  /\ UNCHANGED <<fixedVars, recs, sliceVars, patchPos, diffRead, extraRead,
                 genVars, data, temp2, rd2>>

\* One diffReader.read (line 253).
DiffStep ==
  /\ pc = "add" \/ Orphaned
  /\ inFlight(rd2)
  /\ \/ /\ \E n \in Deliveries(rd2) :
               /\ temp2' = Store(temp2, rd2.off, DiffBytes(diffRead, n))
               /\ rd2' = reissue(readNext(rd2, n), pulling)
               /\ diffRead' = diffRead + n
        /\ UNCHANGED <<failVars, eofAt>>
     \/ /\ IF Orphaned THEN UNCHANGED <<failVars, eofAt>> ELSE ReadEnds
        /\ rd2' = readEnded(rd2)
        /\ UNCHANGED <<temp2, diffRead>>
  /\ UNCHANGED <<fixedVars, recs, sliceVars, patchPos, oldRead, extraRead,
                 genVars, data, temp1, rd1>>

\* lines 254-257: both reads are complete; the sum is yielded.
AddResume ==
  /\ pc = "add" /\ readDone(rd1) /\ readDone(rd2)
  /\ LET n == readAmount(bufferSize, rec.addSize, i)
     IN /\ temp1' = add(temp1, temp2, 0, n)
        /\ newPos' = newPos + n
        /\ oldPos' = oldPos + n
        /\ Yield(SubSeq(temp1', 1, n))
  /\ pc' = "addYield"
  /\ rd1' = Idle /\ rd2' = Idle
  /\ UNCHANGED <<fixedVars, recs, failedAt, fault, faultAt, st, err, posVars, hdr, rec, recStart,
                 i, data, temp2, eofAt>>

\* line 251: i += BUFFER_SIZE, once the consumer pulls again.
AddNext ==
  /\ pulling /\ pc = "addYield"
  /\ i' = nextChunk(i, bufferSize)
  /\ pc' = "addLoop"
  /\ UNCHANGED <<fixedVars, recs, failedAt, fault, faultAt, st, err, pulling, sliceVars,
                 posVars, hdr, rec, recStart, newPos, oldPos, bufVars, rd1, rd2, eofAt>>

\* lines 260-264: the add phase is over; copySize is checked.
CopyCheck ==
  /\ pc = "addLoop" /\ ~(i < rec.addSize)
  /\ IF copyCorrupt(newPos, rec.copySize, hdr.newSize)
     THEN Throw("Corrupt patch") /\ UNCHANGED i
     ELSE /\ i' = 0 /\ pc' = "copyLoop"
          /\ UNCHANGED <<failedAt, fault, faultAt, st, err, pulling>>
  /\ UNCHANGED <<fixedVars, recs, sliceVars, posVars, hdr, rec, recStart, newPos, oldPos,
                 bufVars, rd1, rd2, eofAt>>

\* lines 264-266: a chunk of the copy phase.
CopyChunk ==
  /\ pc = "copyLoop" /\ i < rec.copySize
  /\ LET n == readAmount(bufferSize, rec.copySize, i)
     IN rd1' = readOf("extra", n)
  /\ pc' = "copy"
  /\ UNCHANGED <<fixedVars, recs, failedAt, fault, faultAt, st, err, pulling, sliceVars,
                 posVars, genVars, bufVars, rd2, eofAt>>

\* One extraReader.read (line 266).
ExtraStep ==
  /\ pc = "copy" /\ ~readDone(rd1)
  /\ \/ /\ \E n \in Deliveries(rd1) :
               /\ temp1' = Store(temp1, rd1.off, ExtraBytes(extraRead, n))
               /\ rd1' = readNext(rd1, n)
               /\ extraRead' = extraRead + n
        /\ UNCHANGED <<failVars, eofAt>>
     \/ /\ ReadEnds
        /\ rd1' = readEnded(rd1)
        /\ UNCHANGED <<temp1, extraRead>>
  /\ UNCHANGED <<fixedVars, recs, sliceVars, patchPos, oldRead, diffRead,
                 genVars, data, temp2, rd2>>

\* lines 267-268: the chunk read from the extra stream is yielded.
CopyResume ==
  /\ pc = "copy" /\ readDone(rd1)
  /\ LET n == readAmount(bufferSize, rec.copySize, i)
     IN /\ newPos' = newPos + n
        /\ Yield(SubSeq(temp1, 1, n))
  /\ pc' = "copyYield"
  /\ rd1' = Idle
  /\ UNCHANGED <<fixedVars, recs, failedAt, fault, faultAt, st, err, posVars, hdr, rec, recStart,
                 oldPos, i, bufVars, rd2, eofAt>>

\* line 264: i += BUFFER_SIZE, once the consumer pulls again.
CopyNext ==
  /\ pulling /\ pc = "copyYield"
  /\ i' = nextChunk(i, bufferSize)
  /\ pc' = "copyLoop"
  /\ UNCHANGED <<fixedVars, recs, failedAt, fault, faultAt, st, err, pulling, sliceVars,
                 posVars, hdr, rec, recStart, newPos, oldPos, bufVars, rd1, rd2, eofAt>>

\* lines 271-275: the copy phase is over; seekSize is checked.
SeekCheck ==
  /\ pc = "copyLoop" /\ ~(i < rec.copySize)
  /\ IF seekCorrupt(rec.seekSize)
     THEN Throw("Corrupt patch") /\ UNCHANGED i
     ELSE /\ i' = 0 /\ pc' = "seekLoop"
          /\ UNCHANGED <<failedAt, fault, faultAt, st, err, pulling>>
  /\ UNCHANGED <<fixedVars, recs, sliceVars, posVars, hdr, rec, recStart, newPos, oldPos,
                 bufVars, rd1, rd2, eofAt>>

\* lines 275-277: a chunk of the seek phase, read from the old source.
SeekChunk ==
  /\ pc = "seekLoop" /\ i < rec.seekSize
  /\ LET n == readAmount(bufferSize, rec.seekSize, i)
     IN rd1' = readOf("old", n)
  /\ pc' = "seek"
  /\ UNCHANGED <<fixedVars, recs, failedAt, fault, faultAt, st, err, pulling, sliceVars,
                 posVars, genVars, bufVars, rd2, eofAt>>

\* lines 278, 275: the chunk is dropped; i += BUFFER_SIZE.
SeekResume ==
  /\ pc = "seek" /\ readDone(rd1)
  /\ oldPos' = oldPos + readAmount(bufferSize, rec.seekSize, i)
  /\ i' = nextChunk(i, bufferSize)
  /\ pc' = "seekLoop"
  /\ rd1' = Idle
  /\ UNCHANGED <<fixedVars, recs, failedAt, fault, faultAt, st, err, pulling, sliceVars,
                 posVars, hdr, rec, recStart, newPos, bufVars, rd2, eofAt>>

\* line 275 false: the record is done, back to line 244.
SeekExit ==
  /\ pc = "seekLoop" /\ ~(i < rec.seekSize)
  /\ pc' = "loop"
  /\ UNCHANGED <<fixedVars, recs, failedAt, fault, faultAt, st, err, pulling, sliceVars,
                 posVars, genVars, bufVars, rd1, rd2, eofAt>>

Next ==
  \/ Pull
  \/ Begin
  \/ HeaderStep
  \/ HeaderResume
  \/ SegmentStep
  \/ ControlResume
  \/ DiffResume
  \/ LoopNext
  \/ LoopExit
  \/ RecordStep
  \/ RecordResume
  \/ AddChunk
  \/ OldStep
  \/ DiffStep
  \/ AddResume
  \/ AddNext
  \/ CopyCheck
  \/ CopyChunk
  \/ ExtraStep
  \/ CopyResume
  \/ CopyNext
  \/ SeekCheck
  \/ SeekChunk
  \/ SeekResume
  \/ SeekExit

Spec == Init /\ [][Next]_vars

\* The engine with a consumer that keeps pulling, readers that answer every
\* read and a job queue that runs every continuation: a step that can be
\* taken is taken.
SpecLive == Init /\ [][Next]_vars /\ WF_vars(Next)

\* ------------------------------------------------------------------------
\* SpecInt64: getInt64 applied to 8-byte fields
\* ------------------------------------------------------------------------
\* The values a byte of a sampled field takes: every combination of bit 0x80
\* and bit 0x01.
ByteVals == {0, 1, 128, 129}

Init64 ==
  /\ bufferSize = BUFFER_SIZE
  /\ patchHeader = <<>>
  /\ EngineStart
  /\ bytes \in [1..8 -> ByteVals]
  /\ value = <<>>
  /\ eb = Null /\ br = Null

\* getInt64(bytes, 0), lines 125-137
Decode ==
  /\ value = <<>>
  /\ value' = <<getInt64(bytes, 0)>>
  /\ UNCHANGED <<engineVars, bytes, readerVars>>

Next64 == Decode

SpecInt64 == Init64 /\ [][Next64]_vars

\* ------------------------------------------------------------------------
\* SpecPull: asyncIteratorToStream (lines 8-68) over any iterator
\* ------------------------------------------------------------------------
\* The iterator yields chunks of 1..TempSlots bytes, values it awaits
\* (counted in i since the last chunk) and in the end returns. pc is "start"
\* until it has returned. The consumer pulls with or without a destination
\* buffer, as it does in Spec.
InitPull ==
  /\ bufferSize = BUFFER_SIZE
  /\ patchHeader = <<>>
  /\ EngineStart
  /\ bytes = <<>> /\ value = <<>>
  /\ eb = Null /\ br = Null

\* The chunks the iterator may yield next: n bytes of one of two sources.
Chunks == UNION {{OldBytes(Len(emitted), n), ExtraBytes(Len(emitted), n)} :
                   n \in 1..TempSlots}

\* lines 21-24, 32-36, 46-58: next() gives a chunk.
IteratorYields ==
  /\ pulling /\ pc = "start"
  /\ Len(emitted) < MaxNew
  /\ \E chunk \in Chunks : Yield(chunk)
  /\ i' = 0
  /\ UNCHANGED <<fixedVars, recs, pc, failedAt, fault, faultAt, st, err, posVars,
                 hdr, rec, recStart, newPos, oldPos, bufVars, rd1, rd2, eofAt>>

\* lines 21-24, 38-42: next() gives a promise, which pull awaits before it
\* calls next() again.
IteratorAwaits ==
  /\ pulling /\ pc = "start"
  /\ i < MaxRecords
  /\ i' = i + 1
  /\ UNCHANGED <<fixedVars, recs, failVars, sliceVars, posVars,
                 hdr, rec, recStart, newPos, oldPos, bufVars, rd1, rd2, eofAt>>

\* lines 21-30: next() gives done.
IteratorReturns ==
  /\ pulling /\ pc = "start"
  /\ Return
  /\ UNCHANGED <<fixedVars, recs, failedAt, fault, faultAt, sliceVars, posVars,
                 genVars, bufVars, rd1, rd2, eofAt>>

NextPull ==
  \/ Pull
  \/ IteratorYields
  \/ IteratorAwaits
  \/ IteratorReturns

SpecPull == InitPull /\ [][NextPull]_vars

\* ------------------------------------------------------------------------
\* SpecBYOB: emulateBYOB (lines 157-178) over a default reader
\* ------------------------------------------------------------------------
\* The reader under emulateBYOB delivers up to MaxChunks chunks of 1..MaxNew
\* bytes and then reports done. The bytes are those of the extra stream.
RECURSIVE ChunksOf(_, _)
ChunksOf(lens, pos) ==
  IF lens = <<>> THEN <<>>
  ELSE <<ExtraBytes(pos, Head(lens))>> \o ChunksOf(Tail(lens), pos + Head(lens))

RECURSIVE Concat(_)
Concat(chunks) ==
  IF chunks = <<>> THEN <<>> ELSE Head(chunks) \o Concat(Tail(chunks))

Upstreams ==
  {ChunksOf(lens, 0) : lens \in UNION {[1..c -> 1..MaxNew] : c \in 0..MaxChunks}}

\* lines 159-160, and nothing read yet. up: the chunks the reader has yet to
\* deliver; all: every byte it holds; got: the bytes returned so far. Of the
\* last read: K the length of its destination, n the bytes it returned, done
\* its answer, avail what was pending of the chunk it copied from, fetched
\* the streamReader.read() calls it made.
Emulated(chunks) ==
  [up |-> chunks, all |-> Concat(chunks), buffer |-> NoSlice, offset |-> 0,
   got |-> <<>>, K |-> 0, n |-> 0, done |-> FALSE, avail |-> 0, fetched |-> 0]

\* line 170 copying whatever is pending.
copyAmountRest(K, avail) == avail

\* line 170: Math.min(destination.length, buffer.length - offset)
copyAmount(K, avail) == Min(K, avail)

\* read(destination), lines 162-175, with a destination of K bytes.
emulatedRead(e, K) ==
  LET refill == e.buffer = NoSlice \/ Len(e.buffer) = e.offset
      upDone == refill /\ e.up = <<>>
      buf == IF refill /\ ~upDone THEN Head(e.up) ELSE e.buffer
      off == IF refill THEN 0 ELSE e.offset
      n == copyAmount(K, Len(buf) - off)
  IN IF upDone
     THEN [e EXCEPT !.buffer = NoSlice, !.K = K, !.n = 0, !.done = TRUE,
                    !.avail = 0, !.fetched = 1]
     ELSE [e EXCEPT !.up = IF refill THEN Tail(@) ELSE @,
                    !.buffer = buf,
                    !.offset = off + n,
                    !.got = @ \o SubSeq(buf, off + 1, off + n),
                    !.K = K, !.n = n, !.done = FALSE,
                    !.avail = Len(buf) - off,
                    !.fetched = IF refill THEN 1 ELSE 0]

InitBYOB ==
  /\ bufferSize = BUFFER_SIZE
  /\ patchHeader = <<>>
  /\ EngineStart
  /\ bytes = <<>> /\ value = <<>>
  /\ eb \in {Emulated(chunks) : chunks \in Upstreams}
  /\ br = Null

\* One call of the emulated read with a destination of K bytes.
EmulatedRead ==
  /\ \E K \in 1..MaxNew : eb' = emulatedRead(eb, K)
  /\ UNCHANGED <<engineVars, int64Vars, br>>

NextBYOB == EmulatedRead

SpecBYOB == InitBYOB /\ [][NextBYOB]_vars

\* ------------------------------------------------------------------------
\* SpecBits: bitReaderFromStreamReader (lines 70-100)
\* ------------------------------------------------------------------------
\* line 71, indexed from 1
BITMASK == <<0, 1, 3, 7, 15, 31, 63, 127, 255>>

\* `result` is a 32-bit word: its bits, the most significant first.
Word0 == [j \in 1..32 |-> 0]

\* w << s on a 32-bit word, 0 <= s <= 8.
ShiftLeft32(w, s) == [j \in 1..32 |-> IF j + s <= 32 THEN w[j + s] ELSE 0]

\* w | v on a 32-bit word, 0 <= v < 256.
OrByte32(w, v) ==
  [j \in 1..32 |-> IF j >= 25 /\ (v \div (2 ^ (32 - j))) % 2 = 1 THEN 1 ELSE w[j]]

\* The sum of the bits j..32 of a word, each at its weight.
RECURSIVE LowBits(_, _)
LowBits(w, j) == IF j > 32 THEN 0 ELSE w[j] * (2 ^ (32 - j)) + LowBits(w, j + 1)

\* The number a 32-bit word is in JavaScript: the result of <<= and |= is
\* a signed 32-bit integer.
Int32Of(w) ==
  IF w[1] = 1 THEN (LowBits(w, 2) - 2147483647) - 1 ELSE LowBits(w, 2)

\* The bytes the reader under the bit reader holds.
ByteSamples == {163, 255}

\* The widths readBits is called with.
BitCounts == {1, 2, 7, 8, 9, 31, 32}

\* lines 72-73, over a reader that holds the bytes up. pos: the bytes that
\* reader has delivered; reqs: the streamReader.read calls made; asked: the
\* bytes those calls had room for. Of the last call of readBits: want its n,
\* from the bits consumed before it, ret what it returned, ok whether it
\* was served. k: the bits consumed by the calls served.
BitReader(up) ==
  [up |-> up, pos |-> 0, reqs |-> 0, asked |-> 0,
   buffer |-> <<0>>, cursor |-> -1,
   want |-> 0, from |-> 0, ret |-> 0, ok |-> TRUE, k |-> 0]

\* line 77 taken on every turn of the loop.
needsByteAlways(cur) == TRUE

\* line 77: if (cursor === -1)
needsByte(cur) == cur = -1

\* lines 76-98: the loop of readBits with n bits to go, and its return.
RECURSIVE readLoop(_, _, _)
readLoop(b, n, result) ==
  IF ~(n > 0)
  THEN [b EXCEPT !.ret = Int32Of(result), !.ok = TRUE]
  ELSE LET fetch == needsByte(b.cursor)
           done == fetch /\ b.pos >= Len(b.up)
           b1 == IF fetch /\ ~done
                 THEN [b EXCEPT !.buffer = <<b.up[b.pos + 1]>>,
                                !.pos = @ + 1,
                                !.reqs = @ + 1,
                                !.asked = @ + Len(b.buffer),
                                !.cursor = 0]
                 ELSE b
           left == 8 - b1.cursor
           currentByte == b1.buffer[1]
           shift == 8 - n - b1.cursor
       IN IF done
          THEN [b EXCEPT !.reqs = @ + 1, !.asked = @ + Len(b.buffer),
                         !.ret = -1, !.ok = FALSE]
          ELSE IF n >= left
          THEN readLoop([b1 EXCEPT !.cursor = -1], n - left,
                        OrByte32(ShiftLeft32(result, left),
                                 BitAnd(BITMASK[left + 1], currentByte)))
          ELSE readLoop([b1 EXCEPT !.cursor = @ + n], 0,
                        OrByte32(ShiftLeft32(result, n),
                                 BitAnd(currentByte, BITMASK[n + 1] * (2 ^ shift))
                                   \div (2 ^ shift)))

\* readBits(n), lines 74-99
readBits(b, n) ==
  LET r == readLoop([b EXCEPT !.want = n, !.from = b.k], n, Word0)
  IN IF r.ok THEN [r EXCEPT !.k = @ + n] ELSE r

InitBits ==
  /\ bufferSize = BUFFER_SIZE
  /\ patchHeader = <<>>
  /\ EngineStart
  /\ bytes = <<>> /\ value = <<>>
  /\ eb = Null
  /\ br \in {BitReader(up) :
              up \in UNION {[1..c -> ByteSamples] : c \in 0..MaxBytes}}

\* One call of readBits, awaited before the next, as bzip2 (lines 105-118)
\* and the decompressor make them; the caller stops at the first -1.
ReadBits ==
  /\ br.ok
  /\ \E n \in BitCounts : br' = readBits(br, n)
  /\ UNCHANGED <<engineVars, int64Vars, eb>>

NextBits == ReadBits

SpecBits == InitBits /\ [][NextBits]_vars

\* ------------------------------------------------------------------------
\* Int64 fields as the format defines them
\* ------------------------------------------------------------------------
\* The k-th 8-byte field (k = 0, 1, ...) of a header or a control record.
Field(d, k) == SubSeq(d, 8 * k + 1, 8 * k + 8)

\* Bit 0x80 of the eighth byte: the sign flag.
WireNegative(f) == f[8] >= 128

\* The 63-bit magnitude, as its eight little-endian bytes.
WireMagnitude(f) == [k \in 1..8 |-> IF k = 8 THEN f[8] % 128 ELSE f[k]]

\* The magnitude is below 256.
WireFits(f) == \A k \in 2..8 : WireMagnitude(f)[k] = 0

\* The value of a field whose magnitude is below 256.
WireValue(f) == IF WireNegative(f) THEN -f[1] ELSE f[1]

\* The magnitude of a 32-bit integer, as eight little-endian bytes.
MagnitudeOf(v) ==
  IF v = -2147483647 - 1
  THEN <<0, 0, 0, 128, 0, 0, 0, 0>>
  ELSE LET m == IF v < 0 THEN -v ELSE v
       IN [k \in 1..8 |-> IF k <= 4 THEN (m \div (256 ^ (k - 1))) % 256 ELSE 0]

IsPrefix(s, t) == Len(s) <= Len(t) /\ SubSeq(t, 1, Len(s)) = s

\* C3: getInt64 returns a negative number exactly when bit 0x80 of the eighth
\* byte is set and the magnitude is non-zero, and a non-negative number when
\* that bit is clear.
C3_SignFollowsFlag ==
  value # <<>> =>
    /\ (value[1] < 0) <=> (WireNegative(bytes) /\ WireMagnitude(bytes) # Zeros(8))
    /\ ~WireNegative(bytes) => value[1] >= 0

\* C4: the absolute value getInt64 returns is the little-endian integer of
\* bytes 0..6 and the low seven bits of byte 7.
C4_Magnitude ==
  value # <<>> => MagnitudeOf(value[1]) = WireMagnitude(bytes)

\* ------------------------------------------------------------------------
\* The patch as the format defines it
\* ------------------------------------------------------------------------
\* The header the patch stream holds names the format and carries three
\* sizes, none of them flagged negative.
HeaderWellFormed ==
  /\ SubSeq(patchHeader, 1, 8) = MAGIC
  /\ \A k \in 1..3 : /\ WireFits(Field(patchHeader, k))
                     /\ ~WireNegative(Field(patchHeader, k))

\* The new file the control records read so far describe, their fields taken
\* as the format defines them, against the old source, the diff stream and
\* the extra stream as far as they are known to reach. k is the next record,
\* np, op, dp, ep the positions in the new file, the old source, the diff
\* and the extra stream, acc the bytes written. ok: every record is within
\* its bounds and the new file is complete.
RECURSIVE WireRun(_, _, _, _, _, _)
WireRun(k, np, op, dp, ep, acc) ==
  IF k > Len(recs)
  THEN [ok |-> np = WireValue(Field(patchHeader, 3)), out |-> acc]
  ELSE LET fa == Field(recs[k].raw, 0)
           fc == Field(recs[k].raw, 1)
           fs == Field(recs[k].raw, 2)
           a == WireValue(fa)
           c == WireValue(fc)
           s == WireValue(fs)
           added == [j \in 1..a |->
                       (OldByte(op + j - 1) + DiffByte(dp + j - 1)) % 256]
           copied == [j \in 1..c |-> ExtraByte(ep + j - 1)]
       IN IF \/ ~(WireFits(fa) /\ WireFits(fc) /\ WireFits(fs))
             \/ a < 0 \/ c < 0
             \/ np + a + c > WireValue(Field(patchHeader, 3))
             \/ op + a > oldRead \/ dp + a > diffRead \/ ep + c > extraRead
             \/ op + a + s < 0 \/ op + a + s > oldRead
          THEN [ok |-> FALSE, out |-> acc]
          ELSE WireRun(k + 1, np + a + c, op + a + s, dp + a, ep + c,
                       acc \o added \o copied)

WellFormed == HeaderWellFormed /\ WireRun(1, 0, 0, 0, 0, <<>>).ok

NewFile == WireRun(1, 0, 0, 0, 0, <<>>).out

\* C1: applied to an old source and a well-formed patch that turns it into a
\* new file, the engine completes and the bytes it has output are exactly
\* that new file.
C1_RoundTrip ==
  (st = "closed" /\ WellFormed) => out = NewFile

\* The header read from the patch stream has a wrong magic or a size field
\* whose sign flag is set.
HeaderFaulty ==
  \/ SubSeq(patchHeader, 1, 8) # MAGIC
  \/ \E k \in 1..3 : WireNegative(Field(patchHeader, k))

\* C2: a header whose magic is not BSDIFF40, or one of whose sizes has the
\* sign flag 0x80 set, makes the engine fail with 'Corrupt patch' before it
\* outputs a byte.
C2_HeaderRejected ==
  (patchPos >= 32 /\ pc # "header" /\ HeaderFaulty) =>
    (st = "errored" /\ err = "Corrupt patch" /\ out = <<>>)

LoopPcs ==
  {"loop", "record", "addLoop", "add", "addYield", "copyLoop", "copy",
   "copyYield", "seekLoop", "seek"}

\* The engine has reached its control loop (line 244).
InLoop == pc \in LoopPcs \/ pc = "done" \/ (pc = "failed" /\ failedAt \in LoopPcs)

\* C5: a required read that is answered with end-of-stream makes the output
\* stream fail with 'Unexpected EOF': the stream is errored with that error,
\* it is not closed, and nothing is emitted after the read ended.
C5_TruncatedInputFails ==
  eofAt >= 0 =>
    /\ st = "errored" /\ err = "Unexpected EOF"
    /\ pc = "failed"
    /\ Len(emitted) = eofAt /\ out = emitted

\* A read of the add phase ended with both buffers partly filled, after
\* earlier chunks were emitted.
C5_Witness ==
  /\ eofAt > 0 /\ failedAt = "add"
  /\ rd1.off > 0 /\ rd2.off > 0
  /\ st = "errored"

\* The fields of the control record read last.
LastField(k) == Field(recs[Len(recs)].raw, k)

\* C6: a control record whose addSize is negative or exceeds what is left of
\* the new file makes the engine fail with 'Corrupt patch' before it emits a
\* byte of the record.
C6_AddSizeRejected ==
  (Len(recs) > 0
     /\ (\/ WireNegative(LastField(0))
         \/ recStart + rec.addSize > hdr.newSize)) =>
    /\ st = "errored" /\ err = "Corrupt patch"
    /\ Len(emitted) = recStart

\* C7: in the control loop newPos is the number of bytes emitted, it has not
\* fallen below its value at the start of the record, it is at most newSize,
\* and the stream is closed only with newPos = newSize.
C7_OutputLength ==
  /\ InLoop =>
       /\ newPos = Len(emitted)
       /\ recStart <= newPos
       /\ newPos <= hdr.newSize
       /\ st = "closed" => newPos = hdr.newSize
  /\ st = "closed" => pc = "done"

\* The stream closed after two records, each of which emitted bytes.
C7_Witness ==
  /\ st = "closed" /\ Len(recs) = 2
  /\ 0 < recStart /\ recStart < newPos /\ newPos = hdr.newSize

\* C8: a negative seekSize is reported with an error other than the
\* 'Corrupt patch' of format corruption.
C8_SeekErrorDistinct ==
  (pc = "failed" /\ failedAt = "copyLoop" /\ rec.seekSize < 0) =>
    err # "Corrupt patch"

\* C9: once the engine has thrown, the output stream is errored with that
\* error, no pull is in flight, no byte is delivered after the failure and
\* the stream is not closed.
C9_ErrorsAreFatal ==
  fault # Null =>
    /\ st = "errored" /\ err = fault
    /\ ~pulling /\ pc = "failed"
    /\ Len(out) = faultAt

\* The engine failed on a bounds check after bytes were delivered.
C9_Witness ==
  /\ fault = "Corrupt patch" /\ st = "errored"
  /\ faultAt > 0 /\ Len(recs) = 2

\* The bytes the engine has summed or copied for the chunk whose read failed.
PartialChunk ==
  IF pc = "failed" /\ failedAt = "add"
  THEN [k \in 1..Min(rd1.off, rd2.off) |-> (temp1[k] + temp2[k]) % 256]
  ELSE IF pc = "failed" /\ failedAt = "copy"
  THEN SubSeq(temp1, 1, rd1.off)
  ELSE <<>>

\* C10 as stated: the bytes a run outputs do not depend on the chunk size. At
\* the end of a run the consumer has every byte the old source and the patch
\* supplied for the new file, as it has when the chunk size is 1.
C10_SameBytesForEveryChunkSize ==
  st \in {"closed", "errored"} => out = emitted \o PartialChunk

\* What the header and the control records read so far describe, whatever
\* the chunk size: the bytes of the new file, and whether the records end
\* the file ("done"), break a bound ("corrupt") or leave it unfinished
\* ("more"). The fields are taken as readControlHeader decodes them.
RECURSIVE Described(_, _, _, _, _, _)
Described(k, np, op, dp, ep, acc) ==
  IF k > Len(recs)
  THEN [out |-> acc, verdict |-> IF np < hdr.newSize THEN "more" ELSE "done"]
  ELSE LET a == recs[k].val.addSize
           c == recs[k].val.copySize
           s == recs[k].val.seekSize
           added == [j \in 1..a |->
                       (OldByte(op + j - 1) + DiffByte(dp + j - 1)) % 256]
           copied == [j \in 1..c |-> ExtraByte(ep + j - 1)]
       IN IF a < 0 \/ np + a > hdr.newSize
          THEN [out |-> acc, verdict |-> "corrupt"]
          ELSE IF c < 0 \/ np + a + c > hdr.newSize
          THEN [out |-> acc \o added, verdict |-> "corrupt"]
          ELSE IF s < 0
          THEN [out |-> acc \o added \o copied, verdict |-> "corrupt"]
          ELSE Described(k + 1, np + a + c, op + a + s, dp + a, ep + c,
                         acc \o added \o copied)

\* C10, amended: whatever the chunk size, a run that completes or fails with
\* 'Corrupt patch' has output exactly the bytes the records describe, and it
\* ends that way exactly when the records say so; a run that fails with
\* 'Unexpected EOF' has output a prefix of them.
C10_ChunkingTransparent ==
  InLoop =>
    LET d == Described(1, 0, 0, 0, 0, <<>>)
    IN /\ st = "closed" => (out = d.out /\ d.verdict = "done")
       /\ (st = "errored" /\ err = "Corrupt patch") =>
            (out = d.out /\ d.verdict = "corrupt")
       /\ (st = "errored" /\ err = "Unexpected EOF") => IsPrefix(out, d.out)
       /\ st = "readable" => IsPrefix(out, d.out)

\* A run with chunks of two bytes completed a record of three.
C10_Witness ==
  /\ st = "closed" /\ bufferSize = 2
  /\ Len(recs) = 1 /\ Len(out) = 3

\* The header the patch stream holds is well formed and declares an empty new
\* file; the engine has decoded it.
EmptyNewFile ==
  /\ patchPos >= 32 /\ pc # "header"
  /\ WireValue(Field(patchHeader, 3)) = 0 /\ HeaderWellFormed

Undelivered == SubSeq(prevSlice, cursor + 1, Len(prevSlice))

\* C12: whatever chunks the iterator yields and however the consumer mixes
\* pulls with a destination buffer and pulls without one, the bytes delivered
\* followed by the undelivered rest of the held slice are the bytes yielded,
\* in order; the iterator is not resumed before the held slice is used up,
\* and the stream is closed only by the iterator's return, with every byte
\* delivered.
C12_BytesConserved ==
  /\ emitted = out \o Undelivered
  /\ pulling => out = emitted
  /\ st = "closed" => (pc = "done" /\ out = emitted /\ ~pulling)
  /\ st # "errored"

\* The stream closed after several chunks, the last of which was taken
\* through a destination buffer in more than one pull.
C12_Witness ==
  /\ st = "closed" /\ Len(out) > MaxNew
  /\ prevSlice = NoSlice /\ cursor > MaxView

\* C13 as stated: a read into a destination of K bytes returns fewer than K
\* bytes only when the reader under it has nothing more to deliver.
C13_FillsAcrossChunks ==
  (eb.K > 0 /\ eb.n < eb.K) =>
    (eb.up = <<>> /\ Len(eb.buffer) = eb.offset)

\* C13, amended: a read fetches one chunk if none is pending and never a
\* second one, returns the smaller of K and what is pending of that chunk,
\* which is at least one byte, and answers done only when the reader under
\* it has; the bytes returned so far, the rest of the pending chunk and the
\* chunks not yet fetched are the bytes of the reader under it, in order.
C13_ReadsOneChunk ==
  /\ eb.got \o SubSeq(eb.buffer, eb.offset + 1, Len(eb.buffer)) \o Concat(eb.up)
       = eb.all
  /\ eb.K > 0 =>
       /\ eb.fetched <= 1
       /\ eb.done => (eb.n = 0 /\ eb.fetched = 1 /\ eb.up = <<>> /\ eb.got = eb.all)
       /\ ~eb.done => (eb.n = Min(eb.K, eb.avail) /\ eb.n >= 1)

\* A read returned fewer bytes than its destination holds although the
\* reader under it has another chunk.
C13_Witness ==
  /\ eb.K > 0 /\ ~eb.done
  /\ 1 <= eb.n /\ eb.n < eb.K
  /\ eb.up # <<>>

\* Bit q (0-based, the most significant bit of a byte first) of the bytes the
\* bit reader reads from.
UpBit(q) == (br.up[(q \div 8) + 1] \div (2 ^ (7 - (q % 8)))) % 2

\* Bit p (0 the least significant) of a non-negative 32-bit integer.
BitOf(v, p) == IF p >= 31 THEN 0 ELSE (v \div (2 ^ p)) % 2

\* C14: a call of readBits(n) that is served returns the unsigned integer
\* whose n binary digits are the next n bits of the byte sequence, the most
\* significant first.
C14_ValueIsNextBits ==
  (br.want > 0 /\ br.ok) =>
    /\ br.ret >= 0
    /\ br.want <= 30 => br.ret < 2 ^ br.want
    /\ \A j \in 0..(br.want - 1) :
         BitOf(br.ret, br.want - 1 - j) = UpBit(br.from + j)

\* C15: readBits(n) returns -1 exactly when the bytes ran out before n bits
\* could be served; a call that is served does not return -1.
C15_SentinelMeansExhausted ==
  br.want > 0 =>
    /\ (br.ret = -1) <=> (br.from + br.want > 8 * Len(br.up))
    /\ br.ok => br.ret # -1

\* C16: after calls that were all served and consumed k bits, the bit reader
\* has made ceil(k / 8) reads, each with a destination of one byte and each
\* answered with one byte, and it holds a byte only while some of its bits
\* are unread: cursor is k mod 8, or -1 on a byte boundary.
C16_NoReadAhead ==
  br.ok =>
    /\ br.reqs = (br.k + 7) \div 8
    /\ br.asked = br.reqs /\ br.pos = br.reqs
    /\ Len(br.buffer) = 1
    /\ br.cursor = (IF br.k % 8 = 0 THEN -1 ELSE br.k % 8)

\* Served calls have consumed more than four bytes and stopped inside one.
C16_Witness ==
  /\ br.ok /\ br.k > 32
  /\ br.cursor > 0 /\ br.want = 32

Streams == {"old", "patch", "control", "diff", "extra"}

\* The calls of read on the reader of stream s that are awaiting it.
InFlightOn(s) ==
  (IF rd1.on = s /\ inFlight(rd1) THEN 1 ELSE 0)
    + (IF rd2.on = s /\ inFlight(rd2) THEN 1 ELSE 0)

\* C17: no reader has more than one read in flight, and two reads are in
\* flight together only in the add phase, within a pull: one on the old
\* source and one on the diff stream, for the same chunk.
C17_OneReadPerStream ==
  /\ \A s \in Streams : InFlightOn(s) <= 1
  /\ (inFlight(rd1) /\ inFlight(rd2)) =>
       /\ pc = "add" /\ pulling
       /\ rd1.on = "old" /\ rd2.on = "diff" /\ rd1.end = rd2.end

\* In the add phase the read of the old source is partly served while that
\* of the diff stream has not been answered.
C17_Witness ==
  /\ pc = "add" /\ inFlight(rd1) /\ inFlight(rd2)
  /\ rd1.off > 0 /\ rd2.off = 0

\* C18: no read is issued on any reader unless a pull of the output stream
\* is in flight, also after one of the two reads of the add phase failed.
C18_NoBackgroundReads == ~rd1.late /\ ~rd2.late

\* The control or the diff segment is being read, or that read failed.
Filling(seg) == pc = seg \/ (pc = "failed" /\ failedAt = seg)

Phase ==
  CASE pc = "start" -> 12
    [] pc = "header" -> 11
    [] pc = "control" -> 10
    [] pc = "diff" -> 9
    [] pc \in {"addLoop", "add", "addYield"} -> 8
    [] pc \in {"copyLoop", "copy", "copyYield"} -> 7
    [] pc \in {"seekLoop", "seek"} -> 6
    [] pc = "loop" -> 5
    [] pc = "record" -> 4
    [] OTHER -> 0

ChunksLeft ==
  LET size == CASE pc \in {"addLoop", "add", "addYield"} -> rec.addSize
                [] pc \in {"copyLoop", "copy", "copyYield"} -> rec.copySize
                [] pc \in {"seekLoop", "seek"} -> rec.seekSize
                [] OTHER -> 0
  IN IF size > i THEN size - i ELSE 0

ChunkStep ==
  CASE pc \in {"addLoop", "copyLoop", "seekLoop"} -> 3
    [] pc \in {"add", "copy", "seek"} -> 2
    [] pc \in {"addYield", "copyYield"} -> 1
    [] OTHER -> 0

Awaited(r) == IF inFlight(r) THEN r.end - r.off ELSE 0

Rank ==
  <<MaxRecords - Len(recs), Phase, ChunksLeft, ChunkStep,
    Awaited(rd1) + Awaited(rd2), Len(emitted) - Len(out),
    IF pulling THEN 0 ELSE 1>>

\* a comes before b in the lexicographic order.
LexLess(a, b) ==
  \E k \in 1..Len(a) : a[k] < b[k] /\ \A j \in 1..(k - 1) : a[j] = b[j]

\* C20: when the consumer keeps pulling and every read is answered, the
\* output stream ends closed or errored. Every step of the engine, of a
\* reader or of the consumer lowers what is left to do, which never falls
\* below zero, so no loop, also not one over records with addSize = copySize
\* = 0, goes on forever.
C20_Terminates ==
  /\ [](\A k \in 1..Len(Rank) : Rank[k] >= 0)
  /\ [][LexLess(Rank', Rank)]_vars
  /\ <>(st \in {"closed", "errored"})

\* The stream closed after a record that emits nothing and only seeks.
C20_Witness ==
  /\ st = "closed" /\ Len(recs) = 2
  /\ recs[1].val.addSize = 0 /\ recs[1].val.copySize = 0
====
